---- MODULE Spec2Model ----
(***************************************************************************)
(* Priority Row Stack (PRS): a stack of fixed-capacity rows, each row a    *)
(* list of n priority buckets.  Model of src/PRS/prs/core.py.              *)
(*                                                                         *)
(* An operation of the program is an operator that maps the object's       *)
(* fields to the fields after the call together with the call's outcome    *)
(* (res = "ok" or the name of the exception raised); an action applies it  *)
(* to the state.                                                           *)
(***************************************************************************)
EXTENDS Integers, Sequences, FiniteSets

\* ---------------------------------------------------------------- bounds
MaxK == 2
MaxN == 2
MaxM == 2
MaxPush == 5
\* The threaded specification: threads, push calls started, and the
\* largest k, n and m of its containers.
NumThreads == 2
MaxCalls == 2
MaxKMT == 1
MaxNMT == 1
MaxMMT == 1

\* Python's None, for the Optional[int] fields m and top_priority_idx
\* (neither is ever negative otherwise).
None == -1

\* Items are opaque to the program (it never inspects one).  The callers
\* push distinct items, and an item is identified by the ordinal of the
\* accepted push that stored it: 1, 2, ...  NoItem is what an operation
\* that returns no item hands back.
NoItem == 0

VARIABLES
    k, n, m,        \* PriorityRowStack.k / .n / .m
    _rows,          \* PriorityRowStack._rows: sequence of rows, newest last
    _size,          \* PriorityRowStack._size
    lastOp,         \* the last public operation called
    lastRes,        \* its outcome: "ok" or the exception it raised
    lastPrio,       \* the priority argument of the last push
    ret,            \* the item the last peek/pop returned
    retPrio,        \* history: the priority that item was pushed with
    out,            \* the list the last tolist returned
    pushes,         \* history: number of pushes that returned normally
    pops,           \* history: number of pops that returned an item
    recover,        \* history: 1 after a successful pop taken in a state where
                    \* the row limit rejected pushes, 2 after the next push
                    \* with a priority in 1..n, 0 otherwise
    thread_safe,    \* the constructor's thread_safe argument
    _lock,          \* PriorityRowStack._lock, a threading.RLock: its owner
                    \* (0 when free) and the owner's hold count
    pc,             \* per thread: the operation it is in and its position
    arg,            \* per thread: the item and priority of its push
    outcome,        \* per thread: "ok" or the exception its current call
                    \* is raising, or its last call raised
    val,            \* per thread: the item its peek or pop is about to return
    snap,           \* per thread: the list its tolist is about to return
    issued,         \* number of push calls started by the threads
    load,           \* per thread: the value of self._size its += 1 or -= 1
                    \* has read
    accepted,       \* history: the items whose push returned normally
    popped          \* history: how many times a pop returned each item

seqVars == <<lastOp, lastRes, lastPrio, ret, retPrio, out, pushes, pops, recover>>

mtVars ==
    <<thread_safe, _lock, pc, arg, outcome, val, snap, issued, load, accepted, popped>>

vars == <<k, n, m, _rows, _size, seqVars, mtVars>>

Threads == 1..NumThreads

NoThread == 0

Idle == [op |-> "none", at |-> "idle"]

\* ------------------------------------------------------------ list helpers
Last(s) == s[Len(s)]

Front(s) == SubSeq(s, 1, Len(s) - 1)

Reversed(s) == [i \in 1..Len(s) |-> s[Len(s) + 1 - i]]

\* ------------------------------------------------------------------ PRSRow
\* PRSRow(k, n) before __post_init__ recomputes the cached index.
EmptyRow(kk, nn) ==
    [k |-> kk, n |-> nn, buckets |-> [i \in 1..nn |-> <<>>], count |-> 0,
     top_priority_idx |-> None]

\* A capacity test that is off by one.
PRSRow_is_full_early(row) == row.count >= row.k - 1

PRSRow_is_full(row) == row.count >= row.k

PRSRow_is_empty(row) == row.count = 0

\* The loop of _recompute_top_priority from index idx on.
RECURSIVE ScanBuckets(_, _)
ScanBuckets(row, idx) ==
    IF idx >= row.n THEN None
    ELSE IF row.buckets[idx + 1] # <<>> THEN idx
    ELSE ScanBuckets(row, idx + 1)

PRSRow_recompute_top_priority(row) ==
    [row EXCEPT !.top_priority_idx = ScanBuckets(row, 0)]

NewRow(kk, nn) == PRSRow_recompute_top_priority(EmptyRow(kk, nn))

\* A push that sets the cached index only when it is unset.
PRSRow_push_stale_idx(row, item, priority) ==
    IF ~(1 <= priority /\ priority <= row.n)
    THEN [row |-> row, res |-> "PriorityError"]
    ELSE IF PRSRow_is_full(row)
    THEN [row |-> row, res |-> "RowFullError"]
    ELSE LET idx == priority - 1
             r1 == [row EXCEPT !.buckets[idx + 1] = Append(@, item),
                               !.count = @ + 1]
         IN [row |-> IF r1.top_priority_idx = None
                     THEN [r1 EXCEPT !.top_priority_idx = idx]
                     ELSE r1,
             res |-> "ok"]

PRSRow_push(row, item, priority) ==
    IF ~(1 <= priority /\ priority <= row.n)
    THEN [row |-> row, res |-> "PriorityError"]
    ELSE IF PRSRow_is_full(row)
    THEN [row |-> row, res |-> "RowFullError"]
    ELSE LET idx == priority - 1
             r1 == [row EXCEPT !.buckets[idx + 1] = Append(@, item),
                               !.count = @ + 1]
         IN [row |-> IF r1.top_priority_idx = None \/ idx < r1.top_priority_idx
                     THEN [r1 EXCEPT !.top_priority_idx = idx]
                     ELSE r1,
             res |-> "ok"]

\* A peek that reads the oldest item of the bucket (bucket[0]).
PRSRow_peek_oldest(row) ==
    IF PRSRow_is_empty(row)
    THEN [row |-> row, res |-> "EmptyError", item |-> NoItem]
    ELSE LET r1 == IF row.top_priority_idx = None
                   THEN PRSRow_recompute_top_priority(row)
                   ELSE row
         IN IF r1.top_priority_idx = None
            THEN [row |-> r1, res |-> "AssertionError", item |-> NoItem]
            ELSE LET bucket == r1.buckets[r1.top_priority_idx + 1]
                 IN IF bucket = <<>>
                    THEN [row |-> r1, res |-> "IndexError", item |-> NoItem]
                    ELSE [row |-> r1, res |-> "ok", item |-> Head(bucket)]

PRSRow_peek(row) ==
    IF PRSRow_is_empty(row)
    THEN [row |-> row, res |-> "EmptyError", item |-> NoItem]
    ELSE LET r1 == IF row.top_priority_idx = None
                   THEN PRSRow_recompute_top_priority(row)
                   ELSE row
         IN IF r1.top_priority_idx = None
            THEN [row |-> r1, res |-> "AssertionError", item |-> NoItem]
            ELSE LET bucket == r1.buckets[r1.top_priority_idx + 1]
                 IN IF bucket = <<>>
                    THEN [row |-> r1, res |-> "IndexError", item |-> NoItem]
                    ELSE [row |-> r1, res |-> "ok", item |-> Last(bucket)]

\* A pop that leaves the cached index alone when the bucket empties.
PRSRow_pop_no_recompute(row) ==
    IF PRSRow_is_empty(row)
    THEN [row |-> row, res |-> "EmptyError", item |-> NoItem]
    ELSE LET r1 == IF row.top_priority_idx = None
                   THEN PRSRow_recompute_top_priority(row)
                   ELSE row
         IN IF r1.top_priority_idx = None
            THEN [row |-> r1, res |-> "AssertionError", item |-> NoItem]
            ELSE LET i == r1.top_priority_idx + 1
                     bucket == r1.buckets[i]
                 IN IF bucket = <<>>
                    THEN [row |-> r1, res |-> "IndexError", item |-> NoItem]
                    ELSE [row |-> [r1 EXCEPT !.buckets[i] = Front(bucket),
                                             !.count = @ - 1],
                          res |-> "ok", item |-> Last(bucket)]

\* A pop that forgets to decrement count.
PRSRow_pop_keeps_count(row) ==
    IF PRSRow_is_empty(row)
    THEN [row |-> row, res |-> "EmptyError", item |-> NoItem]
    ELSE LET r1 == IF row.top_priority_idx = None
                   THEN PRSRow_recompute_top_priority(row)
                   ELSE row
         IN IF r1.top_priority_idx = None
            THEN [row |-> r1, res |-> "AssertionError", item |-> NoItem]
            ELSE LET i == r1.top_priority_idx + 1
                     bucket == r1.buckets[i]
                 IN IF bucket = <<>>
                    THEN [row |-> r1, res |-> "IndexError", item |-> NoItem]
                    ELSE LET r2 == [r1 EXCEPT !.buckets[i] = Front(bucket)]
                         IN [row |-> IF Front(bucket) = <<>>
                                     THEN PRSRow_recompute_top_priority(r2)
                                     ELSE r2,
                             res |-> "ok", item |-> Last(bucket)]

PRSRow_pop(row) ==
    IF PRSRow_is_empty(row)
    THEN [row |-> row, res |-> "EmptyError", item |-> NoItem]
    ELSE LET r1 == IF row.top_priority_idx = None
                   THEN PRSRow_recompute_top_priority(row)
                   ELSE row
         IN IF r1.top_priority_idx = None
            THEN [row |-> r1, res |-> "AssertionError", item |-> NoItem]
            ELSE LET i == r1.top_priority_idx + 1
                     bucket == r1.buckets[i]
                 IN IF bucket = <<>>
                    THEN [row |-> r1, res |-> "IndexError", item |-> NoItem]
                    ELSE LET r2 == [r1 EXCEPT !.buckets[i] = Front(bucket),
                                              !.count = @ - 1]
                         IN [row |-> IF Front(bucket) = <<>>
                                     THEN PRSRow_recompute_top_priority(r2)
                                     ELSE r2,
                             res |-> "ok", item |-> Last(bucket)]

\* out.extend(reversed(buckets[idx])) for idx, idx + 1, ..., n - 1.
RECURSIVE RowTolistFrom(_, _)
RowTolistFrom(row, idx) ==
    IF idx >= row.n THEN <<>>
    ELSE Reversed(row.buckets[idx + 1]) \o RowTolistFrom(row, idx + 1)

PRSRow_tolist(row) == RowTolistFrom(row, 0)

\* -------------------------------------------------------- PriorityRowStack
\* self._rows[-1]
TopRow(rows) == rows[Len(rows)]

\* A row opened only when there is none.
_ensure_top_row_only_first(rows) ==
    IF rows = <<>>
    THEN IF m # None /\ Len(rows) >= m
         THEN [rows |-> rows, res |-> "PRSError"]
         ELSE [rows |-> Append(rows, NewRow(k, n)), res |-> "ok"]
    ELSE [rows |-> rows, res |-> "ok"]

\* A row opened on every call, whatever the top row holds.
_ensure_top_row_always(rows) ==
    IF m # None /\ Len(rows) >= m
    THEN [rows |-> rows, res |-> "PRSError"]
    ELSE [rows |-> Append(rows, NewRow(k, n)), res |-> "ok"]

\* A limit test with > in place of >=.
_ensure_top_row_off_by_one(rows) ==
    IF rows = <<>> \/ PRSRow_is_full(TopRow(rows))
    THEN IF m # None /\ Len(rows) > m
              /\ (rows = <<>> \/ PRSRow_is_full(TopRow(rows)))
         THEN [rows |-> rows, res |-> "PRSError"]
         ELSE [rows |-> Append(rows, NewRow(k, n)), res |-> "ok"]
    ELSE [rows |-> rows, res |-> "ok"]

\* A row opened before the limit is tested.
_ensure_top_row_append_first(rows) ==
    IF rows = <<>> \/ PRSRow_is_full(TopRow(rows))
    THEN LET rows1 == Append(rows, NewRow(k, n))
         IN IF m # None /\ Len(rows1) > m
            THEN [rows |-> rows1, res |-> "PRSError"]
            ELSE [rows |-> rows1, res |-> "ok"]
    ELSE [rows |-> rows, res |-> "ok"]

_ensure_top_row(rows) ==
    IF rows = <<>> \/ PRSRow_is_full(TopRow(rows))
    THEN IF m # None /\ Len(rows) >= m
              /\ (rows = <<>> \/ PRSRow_is_full(TopRow(rows)))
         THEN [rows |-> rows, res |-> "PRSError"]
         ELSE [rows |-> Append(rows, NewRow(k, n)), res |-> "ok"]
    ELSE [rows |-> rows, res |-> "ok"]

\* A push that counts the item before the row accepts it.
PriorityRowStack_push_counts_early(rows, size, item, priority) ==
    LET e == _ensure_top_row(rows)
    IN IF e.res # "ok"
       THEN [rows |-> e.rows, size |-> size, res |-> e.res]
       ELSE LET p == PRSRow_push(TopRow(e.rows), item, priority)
                rows1 == [e.rows EXCEPT ![Len(e.rows)] = p.row]
            IN [rows |-> rows1, size |-> size + 1, res |-> p.res]

PriorityRowStack_push(rows, size, item, priority) ==
    LET e == _ensure_top_row(rows)
    IN IF e.res # "ok"
       THEN [rows |-> e.rows, size |-> size, res |-> e.res]
       ELSE LET p == PRSRow_push(TopRow(e.rows), item, priority)
                rows1 == [e.rows EXCEPT ![Len(e.rows)] = p.row]
            IN IF p.res # "ok"
               THEN [rows |-> rows1, size |-> size, res |-> p.res]
               ELSE [rows |-> rows1, size |-> size + 1, res |-> "ok"]

\* A pruning loop that tests is_full in place of is_empty.
RECURSIVE PruneTop_not_full(_)
PruneTop_not_full(rows) ==
    IF rows # <<>> /\ ~PRSRow_is_full(TopRow(rows))
    THEN PruneTop_not_full(Front(rows))
    ELSE rows

\* while self._rows and self._rows[-1].is_empty(): self._rows.pop()
RECURSIVE PruneTop(_)
PruneTop(rows) ==
    IF rows # <<>> /\ PRSRow_is_empty(TopRow(rows))
    THEN PruneTop(Front(rows))
    ELSE rows

PriorityRowStack_peek(rows, size) ==
    IF size = 0
    THEN [rows |-> rows, size |-> size, res |-> "EmptyError", item |-> NoItem]
    ELSE LET rows1 == PruneTop(rows)
         IN IF rows1 = <<>>
            THEN [rows |-> rows1, size |-> size, res |-> "EmptyError",
                  item |-> NoItem]
            ELSE LET p == PRSRow_peek(TopRow(rows1))
                 IN [rows |-> [rows1 EXCEPT ![Len(rows1)] = p.row],
                     size |-> size, res |-> p.res, item |-> p.item]

\* A pop that takes from the oldest row (index 0 in place of -1).
PriorityRowStack_pop_oldest_row(rows, size) ==
    IF size = 0
    THEN [rows |-> rows, size |-> size, res |-> "EmptyError", item |-> NoItem]
    ELSE LET rows1 == PruneTop(rows)
         IN IF rows1 = <<>>
            THEN [rows |-> rows1, size |-> size, res |-> "EmptyError",
                  item |-> NoItem]
            ELSE LET p == PRSRow_pop(rows1[1])
                     rows2 == [rows1 EXCEPT ![1] = p.row]
                 IN IF p.res # "ok"
                    THEN [rows |-> rows2, size |-> size, res |-> p.res,
                          item |-> NoItem]
                    ELSE [rows |-> IF rows2 # <<>>
                                      /\ PRSRow_is_empty(rows2[1])
                                   THEN Tail(rows2)
                                   ELSE rows2,
                          size |-> size - 1, res |-> "ok", item |-> p.item]

PriorityRowStack_pop(rows, size) ==
    IF size = 0
    THEN [rows |-> rows, size |-> size, res |-> "EmptyError", item |-> NoItem]
    ELSE LET rows1 == PruneTop(rows)
         IN IF rows1 = <<>>
            THEN [rows |-> rows1, size |-> size, res |-> "EmptyError",
                  item |-> NoItem]
            ELSE LET p == PRSRow_pop(TopRow(rows1))
                     rows2 == [rows1 EXCEPT ![Len(rows1)] = p.row]
                 IN IF p.res # "ok"
                    THEN [rows |-> rows2, size |-> size, res |-> p.res,
                          item |-> NoItem]
                    ELSE [rows |-> IF rows2 # <<>>
                                      /\ PRSRow_is_empty(TopRow(rows2))
                                   THEN Front(rows2)
                                   ELSE rows2,
                          size |-> size - 1, res |-> "ok", item |-> p.item]

\* A snapshot that walks the rows oldest first.
RECURSIVE PriorityRowStack_tolist_oldest_first(_)
PriorityRowStack_tolist_oldest_first(rows) ==
    IF rows = <<>> THEN <<>>
    ELSE PRSRow_tolist(rows[1]) \o PriorityRowStack_tolist_oldest_first(Tail(rows))

\* for row in reversed(self._rows): out.extend(row.tolist())
RECURSIVE PriorityRowStack_tolist(_)
PriorityRowStack_tolist(rows) ==
    IF rows = <<>> THEN <<>>
    ELSE PRSRow_tolist(TopRow(rows)) \o PriorityRowStack_tolist(Front(rows))

is_empty == _size = 0

size == _size

rows_count == Len(_rows)

\* ----------------------------------------------------------------- actions
\* PriorityRowStack(k, n, m): every accepted configuration within the bounds.
Init ==
    /\ k \in 1..MaxK
    /\ n \in 1..MaxN
    /\ m \in {None} \cup (1..MaxM)
    /\ _rows = <<>>
    /\ _size = 0
    /\ lastOp = "init"
    /\ lastRes = "ok"
    /\ lastPrio = 0
    /\ ret = NoItem
    /\ retPrio = 0
    /\ out = <<>>
    /\ pushes = 0
    /\ pops = 0
    /\ recover = 0
    /\ thread_safe = FALSE
    /\ _lock = [owner |-> NoThread, count |-> 0]
    /\ pc = [t \in Threads |-> Idle]
    /\ arg = [t \in Threads |-> [item |-> NoItem, priority |-> 0]]
    /\ outcome = [t \in Threads |-> "ok"]
    /\ val = [t \in Threads |-> NoItem]
    /\ snap = [t \in Threads |-> <<>>]
    /\ issued = 0
    /\ load = [t \in Threads |-> 0]
    /\ accepted = {}
    /\ popped = [i \in 1..MaxCalls |-> 0]

\* The items a row holds, and the priority an item of rows was pushed with
\* (its bucket), 0 for NoItem.
RowItems(row) ==
    {row.buckets[p][i] : <<p, i>> \in
        {<<p, i>> \in (1..row.n) \X (1..row.k) : i <= Len(row.buckets[p])}}

PriorityOf(rows, item) ==
    IF \E j \in 1..Len(rows), p \in 1..n, i \in 1..k :
          i <= Len(rows[j].buckets[p]) /\ rows[j].buckets[p][i] = item
    THEN CHOOSE p \in 1..n : \E j \in 1..Len(rows), i \in 1..k :
          i <= Len(rows[j].buckets[p]) /\ rows[j].buckets[p][i] = item
    ELSE 0

\* A push with a priority in 1..n is rejected for the row limit.
RowLimitReached(rows) == _ensure_top_row(rows).res = "PRSError"

Push(item, priority) ==
    /\ pushes < MaxPush
    /\ LET r == PriorityRowStack_push(_rows, _size, item, priority)
       IN /\ _rows' = r.rows
          /\ _size' = r.size
          /\ lastRes' = r.res
          /\ pushes' = IF r.res = "ok" THEN pushes + 1 ELSE pushes
    /\ lastOp' = "push"
    /\ lastPrio' = priority
    /\ ret' = NoItem
    /\ retPrio' = 0
    /\ out' = <<>>
    /\ recover' = IF 1 <= priority /\ priority <= n
                  THEN (IF recover = 1 THEN 2 ELSE 0)
                  ELSE (IF recover = 1 THEN 1 ELSE 0)
    /\ UNCHANGED <<k, n, m, pops, mtVars>>

Peek ==
    /\ LET r == PriorityRowStack_peek(_rows, _size)
       IN /\ _rows' = r.rows
          /\ _size' = r.size
          /\ lastRes' = r.res
          /\ ret' = r.item
          /\ retPrio' = PriorityOf(_rows, r.item)
    /\ lastOp' = "peek"
    /\ lastPrio' = 0
    /\ out' = <<>>
    /\ recover' = IF recover = 1 THEN 1 ELSE 0
    /\ UNCHANGED <<k, n, m, pushes, pops, mtVars>>

Pop ==
    /\ LET r == PriorityRowStack_pop(_rows, _size)
       IN /\ _rows' = r.rows
          /\ _size' = r.size
          /\ lastRes' = r.res
          /\ ret' = r.item
          /\ retPrio' = PriorityOf(_rows, r.item)
          /\ pops' = IF r.res = "ok" THEN pops + 1 ELSE pops
          /\ recover' = IF r.res = "ok" /\ RowLimitReached(_rows) THEN 1
                        ELSE IF r.res # "ok" /\ recover = 1 THEN 1
                        ELSE 0
    /\ lastOp' = "pop"
    /\ lastPrio' = 0
    /\ out' = <<>>
    /\ UNCHANGED <<k, n, m, pushes, mtVars>>

Tolist ==
    /\ out' = PriorityRowStack_tolist(_rows)
    /\ lastOp' = "tolist"
    /\ lastRes' = "ok"
    /\ lastPrio' = 0
    /\ ret' = NoItem
    /\ retPrio' = 0
    /\ recover' = IF recover = 1 THEN 1 ELSE 0
    /\ UNCHANGED <<k, n, m, _rows, _size, pushes, pops, mtVars>>

Next ==
    \/ \E priority \in 0..(n + 1) : Push(pushes + 1, priority)
    \/ Peek
    \/ Pop
    \/ Tolist

Spec == Init /\ [][Next]_vars

\* ----------------------------------------------------------------- threads
\* Several threads call the operations of one container built with
\* thread_safe=True.  A thread's position is the statement it executes next:
\*   acquire  self._lock_acquire()
\*   ensure   self._ensure_top_row()                     (push)
\*   row      self._rows[-1].push / .peek / .pop
\*   size     self._size += 1 / self._size -= 1: the read of self._size
\*   store    the write of self._size
\*   check    if self._size == 0: raise EmptyError       (peek, pop)
\*   prune    while self._rows and self._rows[-1].is_empty()
\*   post     if self._rows and self._rows[-1].is_empty() (pop)
\*   body     the loop of tolist
\*   release  finally: self._lock_release()
\*   read     return self._size / len(self._rows)   (size, rows_count,
\*            is_empty: no lock is taken)

\* A lock that excludes nobody.
CanAcquire_no_exclusion(lock, t) == TRUE

\* RLock.acquire() returns at once for the owner and for a free lock, and
\* blocks otherwise.
CanAcquire(lock, t) == lock.owner = NoThread \/ lock.owner = t

_lock_acquire(lock, t) ==
    IF thread_safe THEN [owner |-> t, count |-> lock.count + 1] ELSE lock

\* A release that lowers the hold count and leaves the owner in place.
_lock_release_keeps_owner(lock, t) ==
    IF thread_safe /\ lock.owner = t
    THEN [lock EXCEPT !.count = @ - 1]
    ELSE lock

\* RLock.release() by its owner (no other thread calls it).
_lock_release(lock, t) ==
    IF thread_safe /\ lock.owner = t
    THEN (IF lock.count = 1 THEN [owner |-> NoThread, count |-> 0]
          ELSE [lock EXCEPT !.count = @ - 1])
    ELSE lock

\* An operation without the finally clause: a raised exception leaves at once.
AfterTry_no_finally(op, res) ==
    IF res = "ok" THEN [op |-> op, at |-> "release"] ELSE Idle

\* Where control goes when the try block of op ends with outcome res: the
\* finally clause runs on every exit path.
AfterTry(op, res) == [op |-> op, at |-> "release"]

InitMT ==
    /\ k = MaxKMT
    /\ n = MaxNMT
    /\ m \in {None} \cup (1..MaxMMT)
    /\ _rows = <<>>
    /\ _size = 0
    /\ lastOp = "init"
    /\ lastRes = "ok"
    /\ lastPrio = 0
    /\ ret = NoItem
    /\ retPrio = 0
    /\ out = <<>>
    /\ pushes = 0
    /\ pops = 0
    /\ recover = 0
    /\ thread_safe = TRUE
    /\ _lock = [owner |-> NoThread, count |-> 0]
    /\ pc = [t \in Threads |-> Idle]
    /\ arg = [t \in Threads |-> [item |-> NoItem, priority |-> 0]]
    /\ outcome = [t \in Threads |-> "ok"]
    /\ val = [t \in Threads |-> NoItem]
    /\ snap = [t \in Threads |-> <<>>]
    /\ issued = 0
    /\ load = [t \in Threads |-> 0]
    /\ accepted = {}
    /\ popped = [i \in 1..MaxCalls |-> 0]

\* What a step of thread t leaves alone besides the fields it names.
Frame == UNCHANGED <<k, n, m, seqVars, thread_safe>>

FrameSnap == Frame /\ UNCHANGED <<snap, accepted, popped>>

CallPush(t, priority) ==
    /\ pc[t] = Idle
    /\ issued < MaxCalls
    /\ pc' = [pc EXCEPT ![t] = [op |-> "push", at |-> "acquire"]]
    /\ arg' = [arg EXCEPT ![t] = [item |-> issued + 1, priority |-> priority]]
    /\ issued' = issued + 1
    /\ outcome' = [outcome EXCEPT ![t] = "ok"]
    /\ FrameSnap /\ UNCHANGED <<_rows, _size, _lock, val, load>>

\* peek(), pop() or tolist() is called.
CallLocked(t, op) ==
    /\ pc[t] = Idle
    /\ pc' = [pc EXCEPT ![t] = [op |-> op, at |-> "acquire"]]
    /\ outcome' = [outcome EXCEPT ![t] = "ok"]
    /\ FrameSnap /\ UNCHANGED <<_rows, _size, _lock, arg, val, issued, load>>

\* size(), rows_count() or is_empty() is called.
CallRead(t, op) ==
    /\ pc[t] = Idle
    /\ pc' = [pc EXCEPT ![t] = [op |-> op, at |-> "read"]]
    /\ outcome' = [outcome EXCEPT ![t] = "ok"]
    /\ FrameSnap /\ UNCHANGED <<_rows, _size, _lock, arg, val, issued, load>>

LockAcquire(t) ==
    /\ pc[t].at = "acquire"
    /\ ~thread_safe \/ CanAcquire(_lock, t)
    /\ _lock' = _lock_acquire(_lock, t)
    /\ pc' = [pc EXCEPT ![t].at =
                CASE pc[t].op = "push" -> "ensure"
                  [] pc[t].op = "tolist" -> "body"
                  [] OTHER -> "check"]
    /\ FrameSnap /\ UNCHANGED <<_rows, _size, arg, outcome, val, issued, load>>

PushEnsure(t) ==
    /\ pc[t] = [op |-> "push", at |-> "ensure"]
    /\ LET e == _ensure_top_row(_rows)
       IN /\ _rows' = e.rows
          /\ outcome' = [outcome EXCEPT ![t] = e.res]
          /\ pc' = [pc EXCEPT ![t] = IF e.res = "ok"
                                     THEN [op |-> "push", at |-> "row"]
                                     ELSE AfterTry("push", e.res)]
    /\ FrameSnap /\ UNCHANGED <<_size, _lock, arg, val, issued, load>>

PushRow(t) ==
    /\ pc[t] = [op |-> "push", at |-> "row"]
    /\ LET p == PRSRow_push(TopRow(_rows), arg[t].item, arg[t].priority)
       IN /\ _rows' = [_rows EXCEPT ![Len(_rows)] = p.row]
          /\ outcome' = [outcome EXCEPT ![t] = p.res]
          /\ pc' = [pc EXCEPT ![t] = IF p.res = "ok"
                                     THEN [op |-> "push", at |-> "size"]
                                     ELSE AfterTry("push", p.res)]
    /\ FrameSnap /\ UNCHANGED <<_size, _lock, arg, val, issued, load>>

\* self._size += 1 reads the field, adds, and writes the field: two steps.
PushLoad(t) ==
    /\ pc[t] = [op |-> "push", at |-> "size"]
    /\ load' = [load EXCEPT ![t] = _size]
    /\ pc' = [pc EXCEPT ![t].at = "store"]
    /\ FrameSnap /\ UNCHANGED <<_rows, _size, _lock, arg, outcome, val, issued>>

PushSize(t) ==
    /\ pc[t] = [op |-> "push", at |-> "store"]
    /\ _size' = load[t] + 1
    /\ load' = [load EXCEPT ![t] = 0]
    /\ pc' = [pc EXCEPT ![t] = AfterTry("push", "ok")]
    /\ FrameSnap /\ UNCHANGED <<_rows, _lock, arg, outcome, val, issued>>

\* peek and pop: if self._size == 0: raise EmptyError
CheckEmpty(t) ==
    /\ pc[t].op \in {"peek", "pop"} /\ pc[t].at = "check"
    /\ outcome' = [outcome EXCEPT ![t] = IF _size = 0 THEN "EmptyError" ELSE "ok"]
    /\ pc' = [pc EXCEPT ![t] = IF _size = 0
                               THEN AfterTry(pc[t].op, "EmptyError")
                               ELSE [op |-> pc[t].op, at |-> "prune"]]
    /\ FrameSnap /\ UNCHANGED <<_rows, _size, _lock, arg, val, issued, load>>

\* peek and pop: one test of the pruning loop, then if not self._rows: raise
Prune(t) ==
    /\ pc[t].op \in {"peek", "pop"} /\ pc[t].at = "prune"
    /\ IF _rows # <<>> /\ PRSRow_is_empty(TopRow(_rows))
       THEN /\ _rows' = Front(_rows)
            /\ UNCHANGED <<pc, outcome>>
       ELSE /\ _rows' = _rows
            /\ outcome' = [outcome EXCEPT ![t] =
                              IF _rows = <<>> THEN "EmptyError" ELSE "ok"]
            /\ pc' = [pc EXCEPT ![t] = IF _rows = <<>>
                                       THEN AfterTry(pc[t].op, "EmptyError")
                                       ELSE [op |-> pc[t].op, at |-> "row"]]
    /\ FrameSnap /\ UNCHANGED <<_size, _lock, arg, val, issued, load>>

PeekRow(t) ==
    /\ pc[t] = [op |-> "peek", at |-> "row"]
    /\ LET p == PRSRow_peek(TopRow(_rows))
       IN /\ _rows' = [_rows EXCEPT ![Len(_rows)] = p.row]
          /\ outcome' = [outcome EXCEPT ![t] = p.res]
          /\ val' = [val EXCEPT ![t] = p.item]
          /\ pc' = [pc EXCEPT ![t] = AfterTry("peek", p.res)]
    /\ FrameSnap /\ UNCHANGED <<_size, _lock, arg, issued, load>>

PopRow(t) ==
    /\ pc[t] = [op |-> "pop", at |-> "row"]
    /\ LET p == PRSRow_pop(TopRow(_rows))
       IN /\ _rows' = [_rows EXCEPT ![Len(_rows)] = p.row]
          /\ outcome' = [outcome EXCEPT ![t] = p.res]
          /\ val' = [val EXCEPT ![t] = p.item]
          /\ pc' = [pc EXCEPT ![t] = IF p.res = "ok"
                                     THEN [op |-> "pop", at |-> "size"]
                                     ELSE AfterTry("pop", p.res)]
    /\ FrameSnap /\ UNCHANGED <<_size, _lock, arg, issued, load>>

\* self._size -= 1, in two steps as in push.
PopLoad(t) ==
    /\ pc[t] = [op |-> "pop", at |-> "size"]
    /\ load' = [load EXCEPT ![t] = _size]
    /\ pc' = [pc EXCEPT ![t].at = "store"]
    /\ FrameSnap /\ UNCHANGED <<_rows, _size, _lock, arg, outcome, val, issued>>

PopSize(t) ==
    /\ pc[t] = [op |-> "pop", at |-> "store"]
    /\ _size' = load[t] - 1
    /\ load' = [load EXCEPT ![t] = 0]
    /\ pc' = [pc EXCEPT ![t].at = "post"]
    /\ FrameSnap /\ UNCHANGED <<_rows, _lock, arg, outcome, val, issued>>

PopPost(t) ==
    /\ pc[t] = [op |-> "pop", at |-> "post"]
    /\ _rows' = IF _rows # <<>> /\ PRSRow_is_empty(TopRow(_rows))
                THEN Front(_rows)
                ELSE _rows
    /\ pc' = [pc EXCEPT ![t] = AfterTry("pop", "ok")]
    /\ FrameSnap /\ UNCHANGED <<_size, _lock, arg, outcome, val, issued, load>>

TolistBody(t) ==
    /\ pc[t] = [op |-> "tolist", at |-> "body"]
    /\ snap' = [snap EXCEPT ![t] = PriorityRowStack_tolist(_rows)]
    /\ pc' = [pc EXCEPT ![t] = AfterTry("tolist", "ok")]
    /\ Frame /\ UNCHANGED <<_rows, _size, _lock, arg, outcome, val, issued, load, accepted, popped>>

\* finally: self._lock_release(), and the call returns or raises: its
\* locals are gone, its outcome is what the caller saw.
LockRelease(t) ==
    /\ pc[t].at = "release"
    /\ _lock' = _lock_release(_lock, t)
    /\ pc' = [pc EXCEPT ![t] = Idle]
    /\ arg' = [arg EXCEPT ![t] = [item |-> NoItem, priority |-> 0]]
    /\ val' = [val EXCEPT ![t] = NoItem]
    /\ snap' = [snap EXCEPT ![t] = <<>>]
    /\ accepted' = IF pc[t].op = "push" /\ outcome[t] = "ok"
                   THEN accepted \cup {arg[t].item}
                   ELSE accepted
    /\ popped' = IF pc[t].op = "pop" /\ outcome[t] = "ok"
                 THEN [popped EXCEPT ![val[t]] = @ + 1]
                 ELSE popped
    /\ Frame /\ UNCHANGED <<_rows, _size, outcome, issued, load>>

\* size(), rows_count() and is_empty() read the field and return.
Read(t) ==
    /\ pc[t].at = "read"
    /\ pc' = [pc EXCEPT ![t] = Idle]
    /\ FrameSnap /\ UNCHANGED <<_rows, _size, _lock, arg, outcome, val, issued, load>>

\* The steps of thread t inside a call, the lock acquisition apart.
Step(t) ==
    \/ PushEnsure(t)
    \/ PushRow(t)
    \/ PushLoad(t)
    \/ PushSize(t)
    \/ CheckEmpty(t)
    \/ Prune(t)
    \/ PeekRow(t)
    \/ PopRow(t)
    \/ PopLoad(t)
    \/ PopSize(t)
    \/ PopPost(t)
    \/ TolistBody(t)
    \/ LockRelease(t)
    \/ Read(t)

Call(t) ==
    \/ \E priority \in 0..n : CallPush(t, priority)
    \/ \E op \in {"peek", "pop", "tolist"} : CallLocked(t, op)
    \/ \E op \in {"size", "rows_count", "is_empty"} : CallRead(t, op)

NextMT == \E t \in Threads : Call(t) \/ LockAcquire(t) \/ Step(t)

SpecMT == InitMT /\ [][NextMT]_vars

\* Fair scheduling: a thread that can take a step of its call takes it, and
\* a thread waiting for the lock gets it if the lock is free again and again.
FairSpecMT ==
    /\ SpecMT
    /\ \A t \in Threads : WF_vars(Step(t)) /\ SF_vars(LockAcquire(t))

\* ------------------------------------------------------ property helpers
\* Index of the newest row that holds an item, 0 when no row does.
NewestNonEmpty(rows) ==
    IF \E j \in 1..Len(rows) : RowItems(rows[j]) # {}
    THEN CHOOSE j \in 1..Len(rows) :
            /\ RowItems(rows[j]) # {}
            /\ \A j2 \in (j + 1)..Len(rows) : RowItems(rows[j2]) = {}
    ELSE 0

AllItems(rows) == UNION {RowItems(rows[j]) : j \in 1..Len(rows)}

SetMin(S) == CHOOSE x \in S : \A y \in S : x <= y

SetMax(S) == CHOOSE x \in S : \A y \in S : x >= y

\* The most recently pushed item (largest push ordinal) among the items of
\* row that hold the numerically lowest priority present in row.
NewestOfLowestPriority(row) ==
    LET present == {p \in 1..row.n : row.buckets[p] # <<>>}
        lowest == SetMin(present)
    IN SetMax({row.buckets[lowest][i] : i \in 1..Len(row.buckets[lowest])})

RECURSIVE SumCounts(_)
SumCounts(rows) ==
    IF rows = <<>> THEN 0 ELSE TopRow(rows).count + SumCounts(Front(rows))

\* What repeated pop() calls return, until one fails (a pop that does not
\* lower the size ends the sequence, which keeps the recursion finite).
RECURSIVE PopAll(_, _)
PopAll(rows, sz) ==
    LET r == PriorityRowStack_pop(rows, sz)
    IN IF r.res # "ok" \/ r.size >= sz THEN <<>>
       ELSE <<r.item>> \o PopAll(r.rows, r.size)

\* ------------------------------------------------------------------ claims
\* C1: in every reachable state with size() > 0, pop() succeeds, returns the
\* most recently pushed item among the items holding the numerically lowest
\* priority present in the newest non-empty row, and removes exactly that
\* item.
C1_PopPriorityThenRecency ==
    _size > 0 =>
        LET r == PriorityRowStack_pop(_rows, _size)
            best == NewestOfLowestPriority(_rows[NewestNonEmpty(_rows)])
        IN /\ NewestNonEmpty(_rows) > 0
           /\ r.res = "ok"
           /\ r.item = best
           /\ AllItems(r.rows) = AllItems(_rows) \ {best}

\* C1 witness: a pop returned an item although the row it came from still
\* holds an item pushed after it (priority overrode recency).
C1_Witness ==
    /\ lastOp = "pop" /\ lastRes = "ok"
    /\ _rows # <<>>
    /\ \E x \in RowItems(TopRow(_rows)) : x > ret
    /\ retPrio < PriorityOf(_rows, SetMax(RowItems(TopRow(_rows))))

\* C2: in every reachable state, the item pop() returns is held in a row such
\* that no newer row holds any item, whatever priorities older rows hold.
C2_RowsInStackOrder ==
    _size > 0 =>
        LET r == PriorityRowStack_pop(_rows, _size)
        IN /\ r.res = "ok"
           /\ \A j \in 1..Len(_rows) :
                r.item \in RowItems(_rows[j]) =>
                    \A j2 \in (j + 1)..Len(_rows) : RowItems(_rows[j2]) = {}

\* C2 witness: a pop returned an item of the newest row while an older row
\* holds an item of a more urgent (numerically lower) priority.
C2_Witness ==
    /\ lastOp = "pop" /\ lastRes = "ok"
    /\ _rows # <<>>
    /\ \A x \in AllItems(_rows) : x < ret
    /\ \E x \in AllItems(_rows) : PriorityOf(_rows, x) < retPrio

\* C3: in every reachable state tolist() is the sequence repeated pop() calls
\* would return; a tolist() call returns that sequence, changes neither the
\* rows nor the size, and returns what the tolist() call just before it did.
C3_SnapshotLaw ==
    /\ [](PriorityRowStack_tolist(_rows) = PopAll(_rows, _size))
    /\ [][lastOp' = "tolist" =>
            /\ out' = PopAll(_rows, _size)
            /\ _rows' = _rows
            /\ _size' = _size
            /\ (lastOp = "tolist" => out' = out)]_vars

\* C3 witness: a snapshot of two rows was taken whose order differs from
\* push order and from reverse push order.
C3_Witness ==
    /\ lastOp = "tolist"
    /\ Len(_rows) >= 2
    /\ Len(out) >= 3
    /\ \E i \in 1..(Len(out) - 1) : out[i] < out[i + 1]
    /\ \E i \in 1..(Len(out) - 1) : out[i] > out[i + 1]

\* C4: size() equals accepted pushes minus successful pops, equals the sum of
\* the rows' counts, and is_empty() holds exactly when that number is 0.
C4_SizeIsPushesMinusPops ==
    /\ size = pushes - pops
    /\ size = SumCounts(_rows)
    /\ is_empty <=> (pushes - pops = 0)

\* C4 witness: after accepted pushes and a successful pop, a rejected call
\* left a non-empty container.
C4_Witness ==
    /\ pushes >= 2 /\ pops >= 1
    /\ lastRes # "ok"
    /\ size > 0

\* C5: when m is set, rows_count() never exceeds m.
C5_RowLimit == m # None => rows_count <= m

\* C5 witness: a push was rejected (invalid priority or row limit) with the
\* row count at m.
C5_Witness ==
    /\ m # None /\ rows_count = m
    /\ lastOp = "push"
    /\ lastRes \in {"PriorityError", "PRSError"}

\* C6: in every reachable state a push with priority 0 or n + 1 fails with
\* PriorityError and leaves size() unchanged.
C6_InvalidPriorityRaisesPriorityError ==
    \A p \in {0, n + 1} :
        LET r == PriorityRowStack_push(_rows, _size, pushes + 1, p)
        IN r.res = "PriorityError" /\ r.size = size

\* C7: a push that fails with PriorityError leaves the row sequence,
\* rows_count(), size() and the snapshot as they were.
C7_PriorityErrorChangesNothing ==
    \A p \in {0, n + 1} :
        LET r == PriorityRowStack_push(_rows, _size, pushes + 1, p)
        IN r.res = "PriorityError" =>
            /\ r.rows = _rows
            /\ Len(r.rows) = rows_count
            /\ r.size = size
            /\ PriorityRowStack_tolist(r.rows) = PriorityRowStack_tolist(_rows)

\* C8: when m is set, the row count is m and the last row is full, every
\* push fails with PRSError and leaves rows, rows_count(), size() and the
\* snapshot as they were.
C8_RowLimitRejectsInFull ==
    (m # None /\ rows_count = m /\ PRSRow_is_full(TopRow(_rows))) =>
        \A p \in 0..(n + 1) :
            LET r == PriorityRowStack_push(_rows, _size, pushes + 1, p)
            IN /\ r.res = "PRSError"
               /\ r.rows = _rows
               /\ Len(r.rows) = rows_count
               /\ r.size = size
               /\ PriorityRowStack_tolist(r.rows) = PriorityRowStack_tolist(_rows)

\* C8 witness: a push with a priority in 1..n was rejected with PRSError on a
\* container of m full rows.
C8_Witness ==
    /\ lastOp = "push" /\ lastRes = "PRSError"
    /\ lastPrio \in 1..n
    /\ m # None /\ rows_count = m /\ m >= 2
    /\ size = m * k

\* C9: after a successful pop() taken in a state where the row limit rejects
\* pushes, the next push with a priority in 1..n succeeds.
C9_RowLimitRecoverable == recover = 2 => (lastOp = "push" /\ lastRes = "ok")

\* C9 witness: such a push succeeded, into a row opened in place of the one
\* the pop removed.
C9_Witness ==
    /\ recover = 2 /\ lastRes = "ok"
    /\ m # None /\ rows_count = m
    /\ TopRow(_rows).count = 1

\* C10: peek() and pop() fail with EmptyError exactly when size() = 0, the
\* failed call changes neither the rows nor the size, and with size() > 0 the
\* pruning never removes every row.
C10_EmptyErrorIffSizeZero ==
    LET pk == PriorityRowStack_peek(_rows, _size)
        pp == PriorityRowStack_pop(_rows, _size)
    IN /\ (pk.res = "EmptyError") <=> (size = 0)
       /\ (pp.res = "EmptyError") <=> (size = 0)
       /\ size = 0 => /\ pk.rows = _rows /\ pk.size = size
                      /\ pp.rows = _rows /\ pp.size = size
       /\ size > 0 => PruneTop(_rows) # <<>>

\* C10 witness: a pop failed with EmptyError on a container that has held
\* items and still has a (now empty) row.
C10_Witness ==
    /\ lastOp = "pop" /\ lastRes = "EmptyError"
    /\ pushes > 0
    /\ rows_count = 1
    /\ size = 0

\* C11: in every reachable state, when push delegates to the top row that
\* row is not full, and push ends in success, PriorityError or PRSError,
\* never in RowFullError.
C11_RowFullErrorNeverObserved ==
    \A p \in 0..(n + 1) :
        LET e == _ensure_top_row(_rows)
            r == PriorityRowStack_push(_rows, _size, pushes + 1, p)
        IN /\ e.res = "ok" => ~PRSRow_is_full(TopRow(e.rows))
           /\ r.res \in {"ok", "PriorityError", "PRSError"}

\* C11 witness: a push succeeded into a row opened because the row below
\* it was full.
C11_Witness ==
    /\ lastOp = "push" /\ lastRes = "ok"
    /\ rows_count >= 2
    /\ TopRow(_rows).count = 1
    /\ PRSRow_is_full(_rows[rows_count - 1])

\* C12: in every reachable state a pop() that takes the last item of a row
\* lowers rows_count() by exactly one, and a pop() that leaves that row
\* non-empty leaves rows_count() unchanged.
C12_PopRowsCountExact ==
    _size > 0 =>
        LET r == PriorityRowStack_pop(_rows, _size)
            from == _rows[NewestNonEmpty(_rows)]
        IN /\ r.res = "ok"
           /\ Len(r.rows) = IF from.count = 1 THEN rows_count - 1
                            ELSE rows_count

\* sum(len(b) for b in buckets), from bucket idx on.
RECURSIVE BucketTotal(_, _)
BucketTotal(row, idx) ==
    IF idx >= row.n THEN 0
    ELSE Len(row.buckets[idx + 1]) + BucketTotal(row, idx + 1)

\* C15: every row has count equal to the number of items in its buckets,
\* count <= k, and a cached index that, if set, is the smallest index of a
\* non-empty bucket.
C15_RowInvariant ==
    \A j \in 1..Len(_rows) :
        LET row == _rows[j]
        IN /\ row.count = BucketTotal(row, 0)
           /\ row.count <= row.k
           /\ row.top_priority_idx # None =>
                /\ row.top_priority_idx \in 0..(row.n - 1)
                /\ row.buckets[row.top_priority_idx + 1] # <<>>
                /\ \A i \in 0..(row.top_priority_idx - 1) :
                        row.buckets[i + 1] = <<>>

\* C15 witness: a pop emptied the most urgent bucket of a row and the
\* cached index moved on to the next non-empty bucket.
C15_Witness ==
    /\ lastOp = "pop" /\ lastRes = "ok" /\ retPrio = 1
    /\ m = 1 /\ rows_count = 1
    /\ TopRow(_rows).count = 1
    /\ TopRow(_rows).top_priority_idx = 1

\* C16: every row except possibly the last is non-empty.
C16_EmptyRowOnlyOnTop ==
    \A j \in 1..(Len(_rows) - 1) : ~PRSRow_is_empty(_rows[j])

\* C16 witness: a failed call left an empty row on top of a non-empty one.
C16_Witness ==
    /\ lastRes # "ok"
    /\ rows_count >= 2
    /\ PRSRow_is_empty(TopRow(_rows))
    /\ ~PRSRow_is_empty(_rows[rows_count - 1])

\* C17: in every reachable state with size() > 0, peek() returns the item
\* the pop() right after it returns, leaves size() and the snapshot as they
\* were, and changes the rows at most by dropping empty rows from the top.
C17_PeekAgreesWithPop ==
    _size > 0 =>
        LET pk == PriorityRowStack_peek(_rows, _size)
            pp == PriorityRowStack_pop(pk.rows, pk.size)
        IN /\ pk.res = "ok" /\ pp.res = "ok"
           /\ pk.item = pp.item
           /\ pk.size = size
           /\ PriorityRowStack_tolist(pk.rows) = PriorityRowStack_tolist(_rows)
           /\ \E j \in 0..Len(_rows) :
                /\ pk.rows = SubSeq(_rows, 1, j)
                /\ \A i \in (j + 1)..Len(_rows) : RowItems(_rows[i]) = {}

\* C17 witness: a peek returned an item that is not the newest of its row.
C17_Witness ==
    /\ lastOp = "peek" /\ lastRes = "ok"
    /\ TopRow(_rows).count >= 2
    /\ ret \in RowItems(TopRow(_rows))
    /\ ret < SetMax(RowItems(TopRow(_rows)))

\* C19: every row other than the last holds exactly k items.
C19_LowerRowsFull ==
    \A j \in 1..(Len(_rows) - 1) : _rows[j].count = k

\* C19 witness: after a pop, a partly filled row lies on top of a full one.
C19_Witness ==
    /\ lastOp = "pop" /\ lastRes = "ok"
    /\ k >= 2 /\ rows_count >= 2
    /\ TopRow(_rows).count < k

\* C20: when m is set, a push with a priority in 1..n is rejected with the
\* row-limit error exactly when size() = m * k, and succeeds otherwise.
C20_CapacityIsMTimesK ==
    m # None =>
        \A p \in 1..n :
            LET r == PriorityRowStack_push(_rows, _size, pushes + 1, p)
            IN /\ (r.res = "PRSError") <=> (size = m * k)
               /\ (size # m * k) => r.res = "ok"

\* C20 witness: after pushes and a pop, a push with a valid priority was
\* rejected with the container holding m * k items.
C20_Witness ==
    /\ lastOp = "push" /\ lastRes = "PRSError" /\ lastPrio \in 1..n
    /\ pops >= 1
    /\ m # None /\ size = m * k

\* The positions at which a call reads or writes self._rows or self._size.
AccessPositions ==
    {"ensure", "row", "size", "store", "check", "prune", "post", "body", "read"}

\* Thread t is in the middle of a push or a pop: past the acquisition of the
\* lock and before its release.
MidPushOrPop(t) ==
    /\ pc[t].op \in {"push", "pop"}
    /\ pc[t].at \in
          {"ensure", "row", "size", "store", "check", "prune", "post", "release"}

\* C13: with thread safety enabled every operation holds the lock whenever it
\* reads or writes the rows or the size, so no thread reads them while another
\* thread is in the middle of a push or a pop.
C13_AccessHoldsLock ==
    /\ \A t \in Threads : pc[t].at \in AccessPositions => _lock.owner = t
    /\ \A t, u \in Threads :
          (t # u /\ pc[t].at \in AccessPositions) => ~MidPushOrPop(u)

\* C14: push, peek, pop and tolist release the lock on every exit path: a
\* thread that is not inside a call holds the lock zero times, as before the
\* call, and the lock is free whenever no call is in progress.
C14_LockReleasedOnEveryExit ==
    /\ \A t \in Threads : pc[t].at \in {"idle", "acquire", "read"} => _lock.owner # t
    /\ (_lock.owner = NoThread) = (_lock.count = 0)
    /\ (\A t \in Threads : pc[t] = Idle) => _lock = [owner |-> NoThread, count |-> 0]

\* One call has raised PriorityError and another EmptyError, and no call is
\* in progress.
C14_Witness ==
    /\ \A t \in Threads : pc[t] = Idle
    /\ \E t, u \in Threads : outcome[t] = "PriorityError" /\ outcome[u] = "EmptyError"

\* C18: under fair scheduling every started operation returns or raises.
C18_EveryCallReturns ==
    \A t \in Threads : (pc[t] # Idle) ~> (pc[t] = Idle)

\* A push has raised the row-limit error and returned, the container being
\* full, while another thread's call waits for the lock or runs.
C18_Witness ==
    \E t, u \in Threads :
        /\ pc[t] = Idle /\ outcome[t] = "PRSError"
        /\ RowLimitReached(_rows)
        /\ pc[u] # Idle

\* The number of pops that returned an item among the items 1..j.
RECURSIVE PoppedUpTo(_)
PoppedUpTo(j) == IF j = 0 THEN 0 ELSE popped[j] + PoppedUpTo(j - 1)

PoppedItems == {i \in 1..MaxCalls : popped[i] > 0}

\* C21: the interleaved push and pop calls of several threads behave like a
\* serial order of them: no pop returns an item twice or an item no push has
\* been accepted for, and whenever no call is in progress no accepted item is
\* lost and size() is the accepted pushes minus the successful pops and the
\* number of items the rows hold.
C21_SerialPushPop ==
    /\ \A i \in 1..MaxCalls : popped[i] <= 1
    /\ PoppedItems \subseteq accepted
    /\ (\A t \in Threads : pc[t] = Idle) =>
          /\ AllItems(_rows) = accepted \ PoppedItems
          /\ size = Cardinality(accepted) - PoppedUpTo(MaxCalls)
          /\ size = SumCounts(_rows)

\* No call is in progress, a pop has returned one accepted item and the rows
\* still hold another.
C21_Witness ==
    /\ \A t \in Threads : pc[t] = Idle
    /\ PoppedItems # {}
    /\ AllItems(_rows) # {}

====
